---- MODULE Spec2Model ----
(***************************************************************************)
(* Model of serve.py, the Streamlit OCR page: the per-session state bag    *)
(* (st.session_state), the widgets, and one action per user interaction.   *)
(* Every interaction re-runs the script top to bottom; a button handler    *)
(* that ends in st.rerun() runs the script a second time in the same       *)
(* interaction.                                                            *)
(*                                                                         *)
(* A text is a sequence of characters, each character a one-element token. *)
(***************************************************************************)
EXTENDS Integers, Sequences, FiniteSets, TLC

\* ------------------------------------------------------------------ state

VARIABLES
    session_state,  \* st.session_state of each session
    widgets,        \* each session's widget values: file, language, rotation
    query_share,    \* each session's ?share= query parameter (None: absent)
    page,           \* what each session's last interaction did and rendered
    now,            \* the wall clock, in seconds
    clicks,         \* Extract clicks of each session so far
    hist,           \* per session: every add_to_history call's arguments in
                    \* order, and which of them were deleted or evicted since
    created,        \* per session: the arguments of the last
                    \* generate_shareable_link call that returned each identifier
    assets,         \* the asset files the deployment has
    text_in,        \* SpecAnalyze: the argument of analyze_text_structure
    structure       \* SpecAnalyze: its result

vars == <<session_state, widgets, query_share, page, now, clicks, hist, created,
          assets, text_in, structure>>

\* ------------------------------------------------------------------ bounds

\* Largest value of the wall clock (seconds).
MaxTime == 1
\* Extract clicks per session in Spec.
MaxExtracts == 2
\* Range of the truncated digest in the model (16^8 in the program).
HashSpace == 2
\* Successful extractions in SpecHistory.
MaxAppends == 25
\* Delete clicks in SpecHistory.
MaxDeletes == 1
\* Extract clicks per session in SpecShare.
MaxShareExtracts == 1
\* Lines per text in SpecAnalyze.
MaxLines == 3

\* --------------------------------------------------------------- constants

\* len(file_bytes) > 1024 * 1024
Limit == 1024 * 1024
\* len(st.session_state['ocr_history']) > 20, [:20]
HistoryCap == 20
\* text[:200] + "..." if len(text) > 200
PreviewLen == 200
\* len(line) < 100
HeadingLen == 100

\* ------------------------------------------------------------- characters

Tab == "\t"
Newline == "\n"
Bullet == "<u2022>"
\* A lone surrogate code point, as json.loads yields for the escape \ud800.
Surrogate == "<ud800>"

\* str.strip() with no argument strips these (among the model's characters).
Whitespace == {" ", Tab, Newline}
UpperChars == {"A", "X"}
LowerChars == {"a", "b", "x"}
Digits == <<"0", "1", "2", "3", "4", "5", "6", "7", "8", "9">>

Alphabet ==
    <<" ", Tab, Newline, "#", "-", "*", Bullet, ".", "=", ";", "(", ")",
      "{", "}", "A", "X", "a", "b", "x", Surrogate>> \o Digits

CharCode(c) == CHOOSE i \in 1..Len(Alphabet) : Alphabet[i] = c

\* ------------------------------------------------------------ str helpers

\* The element of a one-element set.  Only({F(x) : x \in {e}}) is F(e) with e
\* evaluated once.
Only(S) == CHOOSE x \in S : TRUE

RECURSIVE lstrip(_)
lstrip(s) ==
    IF s = <<>> THEN <<>>
    ELSE IF Head(s) \in Whitespace THEN lstrip(Tail(s)) ELSE s

RECURSIVE rstrip(_)
rstrip(s) ==
    IF s = <<>> THEN <<>>
    ELSE IF s[Len(s)] \in Whitespace THEN rstrip(SubSeq(s, 1, Len(s) - 1)) ELSE s

\* str.strip()
strip(s) == rstrip(lstrip(s))

\* s[:n]
Prefix(s, n) == SubSeq(s, 1, IF Len(s) < n THEN Len(s) ELSE n)

\* s.startswith(p)
startswith(s, p) == Len(s) >= Len(p) /\ SubSeq(s, 1, Len(p)) = p

\* ch in s
Contains(s, ch) == \E i \in 1..Len(s) : s[i] = ch

\* str.isupper(): at least one cased character and no lower-case one
isupper(s) ==
    /\ \E i \in 1..Len(s) : s[i] \in UpperChars
    /\ \A i \in 1..Len(s) : s[i] \notin LowerChars

\* s.count('  '): non-overlapping occurrences of two spaces, left to right.
\* The scan matches at every even offset of a run of spaces that has a space
\* after it.
RunStart(s, i) ==
    CHOOSE j \in 1..i : (\A k \in j..i : s[k] = " ") /\ (j = 1 \/ s[j - 1] # " ")

count2sp(s) ==
    Cardinality({i \in 1..(Len(s) - 1) :
                    /\ s[i] = " "
                    /\ s[i + 1] = " "
                    /\ (i - RunStart(s, i)) % 2 = 0})

\* s.split('\n'): the pieces between newlines, empty pieces kept
RECURSIVE split(_)
split(s) ==
    IF \A i \in 1..Len(s) : s[i] # Newline THEN <<s>>
    ELSE LET k == CHOOSE i \in 1..Len(s) :
                      s[i] = Newline /\ \A j \in 1..(i - 1) : s[j] # Newline
         IN  <<SubSeq(s, 1, k - 1)>> \o split(SubSeq(s, k + 1, Len(s)))

\* str.encode(): UTF-8 cannot encode a lone surrogate (UnicodeEncodeError)
EncodeRaises(s) == Contains(s, Surrogate)

\* ------------------------------------------------------------ the catalog

\* languages: two of the 66 entries
LanguageNames == <<"English", "French">>
languages ==
    [n \in {"English", "French"} |->
        CASE n = "English" -> "eng" [] n = "French" -> "fra"]

LangSeed(n) == CHOOSE i \in 1..Len(LanguageNames) : LanguageNames[i] = n

\* ------------------------------------------------------------ the session

Sessions == {"A", "B"}

\* Python's None
None == [absent |-> TRUE]

\* st.get_option("server.baseUrlPath") or "http://localhost:8501"
base_url == "http://localhost:8501"

\* st.session_state of a session that has not run the script yet: no key.
\* keys is the set of keys present; a field whose key is absent holds a
\* fixed filler.
EmptySessionState ==
    [keys |-> {},
     previous_language |-> "",
     ocr_result |-> <<>>,
     ocr_language |-> "",
     ocr_language_code |-> "",
     processing_time |-> 0,
     share_url |-> None,
     share_id |-> None,
     shared_results |-> <<>>,
     ocr_history |-> <<>>]

\* del st.session_state[k]
DelKey(ss, k) ==
    CASE k = "ocr_result" -> [ss EXCEPT !.keys = @ \ {k}, !.ocr_result = <<>>]
      [] k = "share_url" -> [ss EXCEPT !.keys = @ \ {k}, !.share_url = None]
      [] OTHER -> [ss EXCEPT !.keys = @ \ {k}]

\* ---------------------------------------------------------- Share Manager

\* hashlib.md5(f"{text}{language}{timestamp}".encode()).hexdigest()[:8]:
\* a fixed function of the three parts into a finite range (here of the
\* text's length and end characters, the language and the timestamp)
md5_8(text, language, timestamp) ==
    (Len(text) + (IF text = <<>> THEN 0
                  ELSE CharCode(text[1]) + CharCode(text[Len(text)]))
       + LangSeed(language) + timestamp) % HashSpace

\* f"{timestamp}_{content_hash}"
ShareId(timestamp, content_hash) == [ts |-> timestamp, h |-> content_hash]

\* Faulty variant of generate_shareable_link: the link is returned, nothing is stored.
generate_shareable_link_NoStore(ss, text, language, t) ==
    [raises |-> EncodeRaises(text), ss |-> ss,
     share_url |-> [base |-> base_url,
                    share |-> ShareId(t, md5_8(text, language, t))],
     share_id |-> ShareId(t, md5_8(text, language, t))]

\* generate_shareable_link(text, language) at wall-clock second t.
\* raises: the UnicodeEncodeError of .encode(), before anything is stored.
generate_shareable_link(ss, text, language, t) ==
    IF EncodeRaises(text)
    THEN [raises |-> TRUE, ss |-> ss, share_url |-> None, share_id |-> None]
    ELSE LET share_id == ShareId(t, md5_8(text, language, t))
             rec == [text |-> text, language |-> language, timestamp |-> t]
             ss1 == IF "shared_results" \in ss.keys THEN ss
                    ELSE [ss EXCEPT !.keys = @ \cup {"shared_results"},
                                    !.shared_results = <<>>]
             ss2 == [ss1 EXCEPT !.shared_results = (share_id :> rec) @@ @]
         IN  [raises |-> FALSE, ss |-> ss2,
              share_url |-> [base |-> base_url, share |-> share_id],
              share_id |-> share_id]

\* Faulty variant of get_shared_result: the records of every session of the process
\* are looked up.
get_shared_result_ProcessWide(ss, share_id) ==
    IF \E v \in Sessions : share_id \in DOMAIN session_state[v].shared_results
    THEN LET v == CHOOSE v \in Sessions :
                      share_id \in DOMAIN session_state[v].shared_results
         IN  session_state[v].shared_results[share_id]
    ELSE None

\* get_shared_result(share_id), looked up in the session state ss
get_shared_result(ss, share_id) ==
    IF "shared_results" \in ss.keys /\ share_id \in DOMAIN ss.shared_results
    THEN ss.shared_results[share_id]
    ELSE None

\* -------------------------------------------------------- History Manager

Ellipsis == <<".", ".", ".">>

\* Faulty variant of add_to_history: the truncation keeps the last 20 items, [-20:].
add_to_history_KeepsOldest(ss, text, language, filename, processing_time, t) ==
    LET inserted ==
            <<[timestamp |-> t,
               text |-> IF Len(text) > PreviewLen
                        THEN Prefix(text, PreviewLen) \o Ellipsis ELSE text,
               language |-> language, filename |-> filename,
               processing_time |-> processing_time, full_text |-> text]>>
            \o ss.ocr_history
    IN  [ss EXCEPT !.keys = @ \cup {"ocr_history"},
                   !.ocr_history =
                      IF Len(inserted) > HistoryCap
                      THEN SubSeq(inserted, Len(inserted) - HistoryCap + 1,
                                  Len(inserted))
                      ELSE inserted]

\* Faulty variant of add_to_history: a text of exactly 200 characters is
\* truncated too (>= 200).
add_to_history_TruncatesAtLimit(ss, text, language, filename, processing_time, t) ==
    LET inserted ==
            <<[timestamp |-> t,
               text |-> IF Len(text) >= PreviewLen
                        THEN Prefix(text, PreviewLen) \o Ellipsis ELSE text,
               language |-> language, filename |-> filename,
               processing_time |-> processing_time, full_text |-> text]>>
            \o ss.ocr_history
    IN  [ss EXCEPT !.keys = @ \cup {"ocr_history"},
                   !.ocr_history =
                      IF Len(inserted) > HistoryCap
                      THEN Prefix(inserted, HistoryCap) ELSE inserted]

\* add_to_history(text, language, filename, processing_time) at second t
add_to_history(ss, text, language, filename, processing_time, t) ==
    LET ss1 == IF "ocr_history" \in ss.keys THEN ss
               ELSE [ss EXCEPT !.keys = @ \cup {"ocr_history"}, !.ocr_history = <<>>]
        history_item ==
            [timestamp |-> t,
             text |-> IF Len(text) > PreviewLen
                      THEN Prefix(text, PreviewLen) \o Ellipsis ELSE text,
             language |-> language,
             filename |-> filename,
             processing_time |-> processing_time,
             full_text |-> text]
        inserted == <<history_item>> \o ss1.ocr_history
    IN  [ss1 EXCEPT !.ocr_history =
            IF Len(inserted) > HistoryCap THEN Prefix(inserted, HistoryCap)
            ELSE inserted]

\* list.pop(i), i counted from 0
pop(l, i) == SubSeq(l, 1, i) \o SubSeq(l, i + 2, Len(l))

\* ------------------------------------------------- Image Preprocessor

\* image.rotate(-rotate_angle, expand=True): a quarter turn swaps the sides.
\* The brightness, contrast and sharpness enhancers change pixel values only.
preprocess(file, rotate_angle) ==
    IF rotate_angle \in {90, 270}
    THEN [width |-> file.height, height |-> file.width]
    ELSE [width |-> file.width, height |-> file.height]

\* image.resize((image.width // 2, image.height // 2))
resize_half(image) == [width |-> image.width \div 2, height |-> image.height \div 2]

\* ------------------------------------------------- Extract Text handler

\* What one interaction leaves behind besides the session state: the steps it
\* took in order, the messages it showed, the payloads it sent to the OCR
\* service, how the extraction ended, and the wall clock.
\* appends and shares list the arguments of the add_to_history and
\* generate_shareable_link calls made (and the identifier the latter returned).
Ctx(ss, steps, msgs, sent, outcome, t) ==
    [ss |-> ss, steps |-> steps, msgs |-> msgs, sent |-> sent,
     outcome |-> outcome, now |-> t, appends |-> <<>>, shares |-> <<>>]

\* The success branch: session-state updates, add_to_history,
\* generate_shareable_link.  An exception of generate_shareable_link is caught
\* by the handler's except clause after the earlier assignments were made.
ExtractSuccess(ss, w, text, steps, msgs, sent, delay, t) ==
    LET ss1 == [ss EXCEPT
                  !.keys = @ \cup {"ocr_result", "ocr_language",
                                   "ocr_language_code", "processing_time"},
                  !.ocr_result = text,
                  !.ocr_language = w.selected_lang,
                  !.ocr_language_code = languages[w.selected_lang],
                  !.processing_time = delay]
        done == steps \o <<"set_result", "add_to_history">>
        appends == <<[text |-> text, language |-> w.selected_lang,
                      filename |-> w.uploaded_file.name,
                      processing_time |-> delay]>>
    IN  Only({
        Only({
        LET ss3 == [link.ss EXCEPT !.keys = @ \cup {"share_url", "share_id"},
                                   !.share_url = link.share_url,
                                   !.share_id = link.share_id]
        IN  IF link.raises
            THEN [Ctx(ss2, done, msgs \cup {"error_processing"}, sent,
                      "exception", t)
                    EXCEPT !.appends = appends]
            ELSE [Ctx(ss3, done \o <<"create_share">>, msgs \cup {"success"},
                      sent, "success", t)
                    EXCEPT !.appends = appends,
                           !.shares = <<[text |-> text,
                                         language |-> w.selected_lang,
                                         share_id |-> link.share_id]>>]
        : link \in {generate_shareable_link(ss2, text, w.selected_lang, t)}})
        : ss2 \in {add_to_history(ss1, text, w.selected_lang,
                                  w.uploaded_file.name, delay, t)}})

\* After ocr_space_file returned `resp` (the parsed JSON) at second t.
ExtractResult(ss, w, resp, steps, msgs, sent, delay, t) ==
    IF resp.errored
    THEN Ctx(ss, steps, msgs \cup {"ocr_error"}, sent, "ocr_error", t)
    ELSE IF resp.results = <<>>
    THEN Ctx(ss, steps, msgs \cup {"no_text"}, sent, "no_text", t)
    ELSE IF resp.results[1].null
    THEN Ctx(ss, steps, msgs \cup {"error_processing"}, sent, "exception", t)
    ELSE LET text == strip(resp.results[1].ParsedText)
         IN  IF text # <<>>
             THEN ExtractSuccess(ss, w, text, steps, msgs, sent, delay, t)
             ELSE Ctx(ss, steps, msgs \cup {"no_text"}, sent, "no_text", t)

\* Faulty variant of ExtractCall: a call that raised is made a second time.
ExtractCall_Retry(ss, w, payload, in, steps, t) ==
    LET call == [size |-> payload.size, width |-> payload.width,
                 height |-> payload.height,
                 language |-> languages[w.selected_lang]]
    IN  IF in.resp.raises
        THEN Ctx(ss, steps \o <<"ocr_call", "ocr_call">>,
                 {"processing_with", "error_processing"}, <<call, call>>,
                 "exception", t + in.delay)
        ELSE ExtractResult(ss, w, in.resp, steps \o <<"ocr_call">>,
                           {"processing_with"}, <<call>>, in.delay, t + in.delay)

\* ocr_space_file(file_bytes, language_code): one POST, no retry.  The call
\* takes in.delay seconds and either raises (transport failure, a body that
\* is not JSON) or returns in.resp.
ExtractCall(ss, w, payload, in, steps, t) ==
    LET msgs == {"processing_with"}
        sent == <<[size |-> payload.size, width |-> payload.width,
                   height |-> payload.height,
                   language |-> languages[w.selected_lang]]>>
        steps1 == steps \o <<"ocr_call">>
        t1 == t + in.delay
    IN  IF in.resp.raises
        THEN Ctx(ss, steps1, msgs \cup {"error_processing"}, sent, "exception", t1)
        ELSE ExtractResult(ss, w, in.resp, steps1, msgs, sent, in.delay, t1)

\* Faulty variant of ExtractHandler: the length is not checked again after the halving.
ExtractHandler_NoSecondCheck(ss, w, image, in, steps, t) ==
    IF ~in.save1_ok
    THEN Ctx(ss, steps \o <<"serialize">>, {"error_processing"}, <<>>, "exception", t)
    ELSE IF in.size1 > Limit
    THEN IF ~in.save2_ok
         THEN Ctx(ss, steps \o <<"serialize", "resize", "serialize">>,
                  {"error_processing"}, <<>>, "exception", t)
         ELSE ExtractCall(ss, w,
                  [size |-> in.size2, width |-> resize_half(image).width,
                   height |-> resize_half(image).height],
                  in, steps \o <<"serialize", "resize", "serialize">>, t)
    ELSE ExtractCall(ss, w,
             [size |-> in.size1, width |-> image.width, height |-> image.height],
             in, steps \o <<"serialize">>, t)

\* The size budget: serialize, halve and serialize again when over the
\* limit, give up when still over it.  in.size1 and in.size2 are the lengths
\* of the two PNG serializations; in.save1_ok and in.save2_ok say whether
\* image.save raised.
ExtractHandler(ss, w, image, in, steps, t) ==
    IF ~in.save1_ok
    THEN Ctx(ss, steps \o <<"serialize">>, {"error_processing"}, <<>>, "exception", t)
    ELSE IF in.size1 > Limit
    THEN IF ~in.save2_ok
         THEN Ctx(ss, steps \o <<"serialize", "resize", "serialize">>,
                  {"error_processing"}, <<>>, "exception", t)
         ELSE IF in.size2 > Limit
         THEN Ctx(ss, steps \o <<"serialize", "resize", "serialize">>,
                  {"too_large"}, <<>>, "too_large", t)
         ELSE ExtractCall(ss, w,
                  [size |-> in.size2, width |-> resize_half(image).width,
                   height |-> resize_half(image).height],
                  in, steps \o <<"serialize", "resize", "serialize">>, t)
    ELSE ExtractCall(ss, w,
             [size |-> in.size1, width |-> image.width, height |-> image.height],
             in, steps \o <<"serialize">>, t)

\* ------------------------------------------------------------ the header

LogoPath == "./assets/gemma3.png"

\* get_logo_base64(): the encoded file, or None when open() raises
get_logo_base64 == IF LogoPath \in assets THEN [b64 |-> LogoPath] ELSE None

\* ------------------------------------------------------- button handlers

\* Faulty variant of ClearHandler: the share records are discarded too.
ClearHandler_DropsShares(ss) ==
    LET ss1 == IF "ocr_result" \in ss.keys THEN DelKey(ss, "ocr_result") ELSE ss
        ss2 == IF "share_url" \in ss1.keys THEN DelKey(ss1, "share_url") ELSE ss1
    IN  [ss2 EXCEPT !.keys = @ \ {"shared_results"}, !.shared_results = <<>>]

\* Clear: lines 260-265 (ocr_text_download is never set by the script)
ClearHandler(ss) ==
    LET ss1 == IF "ocr_result" \in ss.keys THEN DelKey(ss, "ocr_result") ELSE ss
        ss2 == IF "ocr_text_download" \in ss1.keys
               THEN DelKey(ss1, "ocr_text_download") ELSE ss1
    IN  IF "share_url" \in ss2.keys THEN DelKey(ss2, "share_url") ELSE ss2

\* Faulty variant of ViewHandler: the preview is promoted instead of the full text.
ViewHandler_Preview(ss, i) ==
    [ss EXCEPT !.keys = @ \cup {"ocr_result", "ocr_language"},
               !.ocr_result = ss.ocr_history[i + 1].text,
               !.ocr_language = ss.ocr_history[i + 1].language]

\* View Full Text i
ViewHandler(ss, i) ==
    [ss EXCEPT !.keys = @ \cup {"ocr_result", "ocr_language"},
               !.ocr_result = ss.ocr_history[i + 1].full_text,
               !.ocr_language = ss.ocr_history[i + 1].language]

\* Delete i
DeleteHandler(ss, i) == [ss EXCEPT !.ocr_history = pop(@, i)]

\* ------------------------------------------------------------- the script

\* st.file_uploader with no file
NoFile == [name |-> "", kind |-> "none", width |-> 0, height |-> 0]

\* The sidebar's language notice: previous_language is created on the first
\* run and follows the selection.
Sidebar(ss, w) ==
    LET ss1 == IF "previous_language" \in ss.keys THEN ss
               ELSE [ss EXCEPT !.keys = @ \cup {"previous_language"},
                               !.previous_language = "English"]
    IN  IF w.selected_lang # ss1.previous_language
        THEN [ss |-> [ss1 EXCEPT !.previous_language = w.selected_lang],
              msgs |-> {"language_changed"}]
        ELSE [ss |-> ss1, msgs |-> {}]

\* What a run of the script leaves: the session state, what was rendered and
\* whether the run ended in an exception nothing caught.
Page(c, msgs, fault, extract_btn, tabs) ==
    [ss |-> c.ss, steps |-> c.steps, msgs |-> msgs \cup c.msgs, sent |-> c.sent,
     outcome |-> c.outcome, now |-> c.now, appends |-> c.appends,
     shares |-> c.shares, fault |-> fault, extract_btn |-> extract_btn,
     tabs |-> tabs]

\* One interaction: the script from top to bottom with `click` the button
\* pressed ("none" for a widget change or a page load), q the share query
\* parameter and in the environment's answers.  st.rerun() starts the script
\* again with no button pressed.
RECURSIVE Script(_, _, _, _, _, _, _, _)
Script(ss, w, q, click, arg, in, steps, t) ==
    LET shared_result == IF q = None THEN None ELSE get_shared_result(ss, q)
        header == (IF shared_result # None THEN {"shared_result"} ELSE {})
                    \cup {IF get_logo_base64 # None THEN "logo_title"
                          ELSE "text_title"}
    IN  IF click = "clear"
        THEN Script(ClearHandler(ss), w, q, "none", 0, in, steps \o <<"clear">>, t)
        ELSE
        Only({
        LET m == header \cup side.msgs
            file == w.uploaded_file
        IN  IF file # NoFile /\ file.kind # "image"
            \* Image.open raises outside any try block
            THEN Page(Ctx(side.ss, steps, {}, <<>>, "none", t), m, TRUE, FALSE, FALSE)
            ELSE
            LET image == preprocess(file, w.rotate_angle)
                steps1 == IF file # NoFile THEN steps \o <<"preprocess">> ELSE steps
            IN  Only({
                IF "ocr_result" \notin c.ss.keys
                THEN Page(c, m \cup {"upload_hint"}, FALSE, file # NoFile, FALSE)
                ELSE IF click = "view"
                THEN Script(ViewHandler(c.ss, arg), w, q, "none", 0, in,
                            c.steps \o <<"view">>, t)
                ELSE IF click = "delete"
                THEN Script(DeleteHandler(c.ss, arg), w, q, "none", 0, in,
                            c.steps \o <<"delete">>, t)
                ELSE Page(c, m, FALSE, file # NoFile, TRUE)
                : c \in {IF click = "extract"
                         THEN ExtractHandler(side.ss, w, image, in, steps1, t)
                         ELSE Ctx(side.ss, steps1, {}, <<>>, "none", t)}})
        : side \in {Sidebar(ss, w)}})

\* ------------------------------------------------------- interactions

DefaultWidgets == [uploaded_file |-> NoFile, selected_lang |-> "English",
                   rotate_angle |-> 0]

\* The environment's answers to an interaction that clicks no Extract: unused.
Quiet ==
    [save1_ok |-> TRUE, size1 |-> 0, save2_ok |-> TRUE, size2 |-> 0,
     resp |-> [raises |-> FALSE, errored |-> FALSE, results |-> <<>>],
     delay |-> 0]

PageOf(p, kind, arg) ==
    [kind |-> kind, arg |-> arg, steps |-> p.steps, msgs |-> p.msgs,
     sent |-> p.sent, outcome |-> p.outcome, fault |-> p.fault,
     extract_btn |-> p.extract_btn, tabs |-> p.tabs]

EmptyHist == [appended |-> <<>>, deleted |-> {}, evicted |-> {}]

Live(h) == (1..Len(h.appended)) \ (h.deleted \cup h.evicted)

SetMin(S) == CHOOSE x \in S : \A y \in S : x <= y

\* The members of a finite set of numbers, largest first
Descending(S) ==
    [k \in 1..Cardinality(S) |->
        CHOOSE x \in S : Cardinality({y \in S : y > x}) = k - 1]

\* Bookkeeping of the add_to_history calls: a call beyond the capacity evicts
\* the oldest entry that is still there.
HistAfterAppends(h, appends) ==
    IF appends = <<>> THEN h
    ELSE LET h1 == [h EXCEPT !.appended = @ \o appends]
         IN  IF Cardinality(Live(h1)) > HistoryCap
             THEN [h1 EXCEPT !.evicted = @ \cup {SetMin(Live(h1))}]
             ELSE h1

\* Bookkeeping of Delete i: the entry at position i is the (i+1)-th newest
\* that is still there.
HistAfterDelete(h, i) == [h EXCEPT !.deleted = @ \cup {Descending(Live(h))[i + 1]}]

CreatedAfter(c, shares) ==
    IF shares = <<>> THEN c
    ELSE (shares[1].share_id :>
            [text |-> shares[1].text, language |-> shares[1].language]) @@ c

\* One interaction of session u: the widgets become w2, the script runs with
\* `click`, and the page, the clock and the bookkeeping follow.
Interact(u, w2, kind, click, arg, in) ==
    \E p \in {Script(session_state[u], w2, query_share[u], click, arg, in, <<>>,
                      now)} :
    LET h1 == IF click = "delete" THEN HistAfterDelete(hist[u], arg) ELSE hist[u]
    IN  /\ session_state' = [session_state EXCEPT ![u] = p.ss]
        /\ widgets' = [widgets EXCEPT ![u] = w2]
        /\ page' = [page EXCEPT ![u] = PageOf(p, kind, arg)]
        /\ now' = p.now
        /\ hist' = [hist EXCEPT ![u] = HistAfterAppends(h1, p.appends)]
        /\ created' = [created EXCEPT ![u] = CreatedAfter(@, p.shares)]
        /\ UNCHANGED <<query_share, assets, text_in, structure>>

\* The first run of the script in a new session opened with query parameter q
FirstRun(q, t) ==
    Script(EmptySessionState, DefaultWidgets, q, "none", 0, Quiet, <<>>, t)

\* The state after every session's first run, with the asset files `a`
InitWith(a) ==
    /\ assets = a
    /\ session_state = [u \in Sessions |-> FirstRun(None, 0).ss]
    /\ widgets = [u \in Sessions |-> DefaultWidgets]
    /\ query_share = [u \in Sessions |-> None]
    /\ page = [u \in Sessions |-> PageOf(FirstRun(None, 0), "load", 0)]
    /\ now = 0
    /\ clicks = [u \in Sessions |-> 0]
    /\ hist = [u \in Sessions |-> EmptyHist]
    /\ created = [u \in Sessions |-> <<>>]
    /\ text_in = <<>>
    /\ structure = None

Init == \E a \in SUBSET {LogoPath} : InitWith(a)

\* ---------------------------------------------------------------- actions

\* What st.file_uploader can hold: an image, or a file Image.open cannot
\* identify (a pdf, docx or doc, which the uploader accepts, or a damaged image)
Files ==
    {[name |-> "scan.png", kind |-> "image", width |-> 4, height |-> 2],
     [name |-> "doc.pdf", kind |-> "document", width |-> 0, height |-> 0]}

Rotations == {0, 90}

\* The user picks, replaces or removes the file.  The rotation selector is
\* only rendered with a file and returns to its default without one.
Upload(u, f) ==
    /\ f # widgets[u].uploaded_file
    /\ UNCHANGED clicks
    /\ Interact(u, [widgets[u] EXCEPT !.uploaded_file = f,
                        !.rotate_angle = IF f = NoFile THEN 0 ELSE @],
                "upload", "none", 0, Quiet)

SetRotation(u, a) ==
    /\ widgets[u].uploaded_file # NoFile
    /\ a # widgets[u].rotate_angle
    /\ UNCHANGED clicks
    /\ Interact(u, [widgets[u] EXCEPT !.rotate_angle = a], "rotate", "none", 0,
                Quiet)

SelectLanguage(u, l) ==
    /\ l # widgets[u].selected_lang
    /\ UNCHANGED clicks
    /\ Interact(u, [widgets[u] EXCEPT !.selected_lang = l], "language", "none", 0,
                Quiet)

\* The Extract Text button exists when the last run rendered it.
ClickExtract(u, in) ==
    /\ page[u].extract_btn
    /\ now + in.delay <= MaxTime
    /\ clicks' = [clicks EXCEPT ![u] = @ + 1]
    /\ Interact(u, widgets[u], "extract", "extract", 0, in)

ClickClear(u) ==
    /\ UNCHANGED clicks
    /\ Interact(u, widgets[u], "clear", "clear", 0, Quiet)

\* The History tab's buttons exist when the last run rendered the tabs.
ClickView(u, i) ==
    /\ page[u].tabs
    /\ i < Len(session_state[u].ocr_history)
    /\ UNCHANGED clicks
    /\ Interact(u, widgets[u], "view", "view", i, Quiet)

ClickDelete(u, i) ==
    /\ page[u].tabs
    /\ i < Len(session_state[u].ocr_history)
    /\ UNCHANGED clicks
    /\ Interact(u, widgets[u], "delete", "delete", i, Quiet)

\* A page load (a reload, or a share link opened) starts a new session.
OpenPage(u, q) ==
    /\ session_state' = [session_state EXCEPT ![u] = FirstRun(q, now).ss]
    /\ widgets' = [widgets EXCEPT ![u] = DefaultWidgets]
    /\ query_share' = [query_share EXCEPT ![u] = q]
    /\ page' = [page EXCEPT ![u] = PageOf(FirstRun(q, now), "load", 0)]
    /\ clicks' = [clicks EXCEPT ![u] = 0]
    /\ hist' = [hist EXCEPT ![u] = EmptyHist]
    /\ created' = [created EXCEPT ![u] = <<>>]
    /\ UNCHANGED <<now, assets, text_in, structure>>

Tick ==
    /\ now < MaxTime
    /\ now' = now + 1
    /\ UNCHANGED <<session_state, widgets, query_share, page, clicks, hist,
                   created, assets, text_in, structure>>

\* ------------------------------------------------------- Spec: one session

\* n times the character c
Rep(c, n) == [i \in 1..n |-> c]

\* A text one character longer than a history preview
LongText == Rep("x", PreviewLen + 1)

\* ParsedText values: blank, short, long and padded, and one holding a lone
\* surrogate
ParsedTexts == {<<" ">>, <<"a">>, <<" ">> \o LongText \o <<Newline>>, <<Surrogate>>}

Body(errored, results) == [raises |-> FALSE, errored |-> errored, results |-> results]

\* What ocr_space_file can do: raise, or return one of these bodies
Responses ==
    {[raises |-> TRUE, errored |-> FALSE, results |-> <<>>],
     Body(TRUE, <<>>), Body(FALSE, <<>>),
     Body(FALSE, <<[null |-> TRUE, ParsedText |-> <<>>]>>)}
    \cup {Body(FALSE, <<[null |-> FALSE, ParsedText |-> x]>>) : x \in ParsedTexts}

In(save1_ok, size1, save2_ok, size2, resp, delay) ==
    [save1_ok |-> save1_ok, size1 |-> size1, save2_ok |-> save2_ok,
     size2 |-> size2, resp |-> resp, delay |-> delay]

\* The environment's answers to an Extract click that never reaches the OCR
\* call: a serialization raises, or the image is over the limit twice
InputsNoCall ==
    {In(FALSE, Limit, TRUE, Limit, Body(FALSE, <<>>), 0),
     In(TRUE, Limit + 1, FALSE, Limit, Body(FALSE, <<>>), 0),
     In(TRUE, Limit + 1, TRUE, Limit + 1, Body(FALSE, <<>>), 0)}

\* ... and to one that reaches it, at once or after the halving, with the
\* serialized length at the limit or below it
InputsCall(resps, delays) ==
    {In(TRUE, sz[1], TRUE, sz[2], r, d) :
        sz \in {<<Limit, Limit>>, <<Limit + 1, Limit>>, <<Limit + 1, Limit - 1>>},
        r \in resps, d \in delays}

Inputs == InputsNoCall \cup InputsCall(Responses, {0})

Next ==
    \/ \E f \in Files \cup {NoFile} : Upload("A", f)
    \/ \E l \in DOMAIN languages : SelectLanguage("A", l)
    \/ \E in \in Inputs : clicks["A"] < MaxExtracts /\ ClickExtract("A", in)
    \/ ClickClear("A")
    \/ \E i \in 0..(HistoryCap - 1) : ClickView("A", i)
    \/ \E i \in 0..(HistoryCap - 1) : ClickDelete("A", i)

Spec == InitWith({LogoPath}) /\ [][Next]_vars

\* ------------------------------------------- SpecHistory: a long session

\* The decimal digits of n, 0 <= n < 100
TextOfNumber(n) ==
    IF n < 10 THEN <<Digits[n + 1]>>
    ELSE <<Digits[(n \div 10) + 1], Digits[(n % 10) + 1]>>

TheImage == CHOOSE f \in Files : f.kind = "image"

\* The n-th extraction of the session returns the text of the number n.
NumberedInput(n) ==
    In(TRUE, Limit, TRUE, Limit,
       Body(FALSE, <<[null |-> FALSE, ParsedText |-> TextOfNumber(n)]>>), 0)

NextHistory ==
    \/ Upload("A", TheImage)
    \/ \E a \in Rotations : SetRotation("A", a)
    \/ /\ clicks["A"] < MaxAppends
       /\ ClickExtract("A", NumberedInput(clicks["A"] + 1))
    \/ \E i \in 0..(HistoryCap - 1) :
          /\ Cardinality(hist["A"].deleted) < MaxDeletes
          /\ ClickDelete("A", i)

SpecHistory == InitWith({LogoPath}) /\ [][NextHistory]_vars

\* ------------------------------------- SpecPreview: texts around 200

\* Texts of 50, 200, 201 and 250 characters; the long ones end in other
\* characters than they start with
PreviewTexts ==
    {Rep("a", 50), Rep("a", PreviewLen), Rep("a", PreviewLen) \o <<"b">>,
     Rep("a", PreviewLen) \o Rep("b", 50)}

PreviewInputs ==
    {In(TRUE, Limit, TRUE, Limit,
        Body(FALSE, <<[null |-> FALSE, ParsedText |-> x]>>), 0) :
        x \in PreviewTexts}

NextPreview ==
    \/ Upload("A", TheImage)
    \/ \E l \in DOMAIN languages : SelectLanguage("A", l)
    \/ \E in \in PreviewInputs :
          clicks["A"] < MaxExtracts /\ ClickExtract("A", in)
    \/ \E i \in 0..(HistoryCap - 1) : ClickView("A", i)

SpecPreview == InitWith({LogoPath}) /\ [][NextPreview]_vars

\* --------------------------------------------- SpecShare: two sessions

\* The share links a page can be opened with: none, one nobody made, and the
\* ones some session holds
Links ==
    {None, ShareId(0, 0)}
        \cup UNION {DOMAIN session_state[v].shared_results : v \in Sessions}

ShareInputs ==
    {In(TRUE, Limit, TRUE, Limit,
        Body(FALSE, <<[null |-> FALSE, ParsedText |-> x]>>), 0) :
        x \in {<<"a", " ">>, <<"b">>}}

NextShare ==
    \/ \E u \in Sessions : Upload(u, TheImage)
    \/ \E u \in Sessions, in \in ShareInputs :
          clicks[u] < MaxShareExtracts /\ ClickExtract(u, in)
    \/ \E u \in Sessions, q \in Links : OpenPage(u, q)
    \/ Tick

SpecShare == Init /\ [][NextShare]_vars

\* ---------------------------------------------- Text Structure Analyzer

\* line.startswith('#') or (line.isupper() and len(line) < 100)
HeadingRule(line) ==
    startswith(line, <<"#">>) \/ (isupper(line) /\ Len(line) < HeadingLen)

\* line.startswith(('•', '-', '*', '1.', '2.', '3.'))
ListRule(line) ==
    \E p \in {<<Bullet>>, <<"-">>, <<"*">>, <<"1", ".">>, <<"2", ".">>,
              <<"3", ".">>} : startswith(line, p)

\* any(char in line for char in ['{', '}', '(', ')', ';', '='])
CodeRule(line) == \E c \in {"{", "}", "(", ")", ";", "="} : Contains(line, c)

\* '\t' in line or line.count('  ') > 3
TableRule(line) == Contains(line, Tab) \/ count2sp(line) > 3

EmptyStructure ==
    [headings |-> <<>>, lists |-> <<>>, paragraphs |-> <<>>, tables |-> <<>>,
     code_blocks |-> <<>>]

\* Faulty variant of Classify: the code rule is tried before the list rule.
Classify_CodeFirst(line) ==
    IF HeadingRule(line) THEN "headings"
    ELSE IF CodeRule(line) THEN "code_blocks"
    ELSE IF ListRule(line) THEN "lists"
    ELSE IF TableRule(line) THEN "tables"
    ELSE "paragraphs"

\* The if / elif chain: the bucket of a stripped, non-empty line
Classify(line) ==
    IF HeadingRule(line) THEN "headings"
    ELSE IF ListRule(line) THEN "lists"
    ELSE IF CodeRule(line) THEN "code_blocks"
    ELSE IF TableRule(line) THEN "tables"
    ELSE "paragraphs"

\* The loop body for lines[i] (i counted from 1, so enumerate's i + 1 is i)
AnalyzeLine(st, lines, i) ==
    LET line == strip(lines[i])
    IN  IF line = <<>> THEN st
        ELSE [st EXCEPT ![Classify(line)] = Append(@, [line |-> i, text |-> line])]

\* The for loop over lines[1..n]
RECURSIVE AnalyzeLoop(_, _)
AnalyzeLoop(lines, n) ==
    IF n = 0 THEN EmptyStructure
    ELSE AnalyzeLine(AnalyzeLoop(lines, n - 1), lines, n)

analyze_text_structure(text) == AnalyzeLoop(split(text), Len(split(text)))

\* --------------------------------------- SpecAnalyze: the analyzer alone

\* Lines the texts are made of
SampleLines ==
    {<<>>,
     <<" ", Tab>>,
     <<"#", " ", "a">>,
     <<" ", "A", "X", " ">>,
     <<"1", ".", " ", "X">>,
     <<"1", ".", " ", "x", " ", "=", " ", "5", ";">>,
     <<"x", "=", "5">>,
     <<"a", Tab, "b">>,
     <<"a">> \o Rep(" ", 8) \o <<"b">>,
     <<"a">> \o Rep(" ", 7) \o <<"b">>,
     Rep("X", HeadingLen - 1),
     Rep("X", HeadingLen)}

RECURSIVE Join(_)
Join(ls) ==
    IF Len(ls) = 1 THEN ls[1] ELSE ls[1] \o <<Newline>> \o Join(Tail(ls))

AnalyzeInputs ==
    {Join(ls) : ls \in UNION {[1..n -> SampleLines] : n \in 1..MaxLines}}

InitAnalyze ==
    /\ assets = {LogoPath}
    /\ session_state = [u \in Sessions |-> FirstRun(None, 0).ss]
    /\ widgets = [u \in Sessions |-> DefaultWidgets]
    /\ query_share = [u \in Sessions |-> None]
    /\ page = [u \in Sessions |-> PageOf(FirstRun(None, 0), "load", 0)]
    /\ now = 0
    /\ clicks = [u \in Sessions |-> 0]
    /\ hist = [u \in Sessions |-> EmptyHist]
    /\ created = [u \in Sessions |-> <<>>]
    /\ text_in \in AnalyzeInputs
    /\ structure = None

Analyze ==
    /\ structure = None
    /\ structure' = analyze_text_structure(text_in)
    /\ UNCHANGED <<session_state, widgets, query_share, page, now, clicks, hist,
                   created, assets, text_in>>

NextAnalyze == Analyze

SpecAnalyze == InitAnalyze /\ [][NextAnalyze]_vars

\* ----------------------------------------------------------- properties

InSeq(q, x) == \E i \in DOMAIN q : q[i] = x
Count(q, x) == Cardinality({i \in DOMAIN q : q[i] = x})

\* Every identifier generate_shareable_link can return
AllShareIds == {ShareId(t, h) : t \in 0..MaxTime, h \in 0..(HashSpace - 1)}

\* C1: the OCR service is never called with a payload over 1 MiB.  The image
\* is serialized once; over the limit it is halved and serialized once more;
\* still over the limit, the oversize error is shown, no call is made and no
\* result is produced.  The payload sent is the preprocessed image, or its
\* half when the halving took place.
C1_NoOversizePayload ==
    \A u \in Sessions :
        LET p == page[u]
            image == preprocess(widgets[u].uploaded_file, widgets[u].rotate_angle)
        IN  /\ \A i \in DOMAIN p.sent : p.sent[i].size <= Limit
            /\ Count(p.steps, "resize") <= 1
            /\ Count(p.steps, "serialize") = Count(p.steps, "resize")
                 + (IF p.kind = "extract" THEN 1 ELSE 0)
            /\ \A i \in DOMAIN p.sent :
                 <<p.sent[i].width, p.sent[i].height>> =
                    IF InSeq(p.steps, "resize")
                    THEN <<image.width \div 2, image.height \div 2>>
                    ELSE <<image.width, image.height>>
            /\ "too_large" \in p.msgs =>
                 /\ InSeq(p.steps, "resize")
                 /\ p.sent = <<>>
                 /\ ~InSeq(p.steps, "ocr_call")
                 /\ ~InSeq(p.steps, "set_result")

\* C1's case: an image over the limit was halved and its half was sent.
C1_Witness ==
    \E u \in Sessions : InSeq(page[u].steps, "resize") /\ Len(page[u].sent) = 1

\* What add_to_history was called with, read back from a history entry
EntryArgs(item) ==
    [text |-> item.full_text, language |-> item.language,
     filename |-> item.filename, processing_time |-> item.processing_time]

\* C2: the history holds at most 20 entries and is the appended entries that
\* were neither deleted nor evicted, newest first; only entries older than
\* every remaining one are ever evicted, so that with no deletion the n-th
\* newest entry is the n-th last appended (after 25 appends the 20 newest);
\* and Delete i removes the entry at position i alone, the later entries
\* moving up by one.
C2_HistoryNewestFirst ==
    [][\A u \in Sessions :
          LET old == session_state[u].ocr_history
              new == session_state'[u].ocr_history
              h == hist'[u]
              n == Len(h.appended)
              order == Descending(Live(h))
          IN  /\ Len(new) <= HistoryCap
              /\ Len(new) = Cardinality(Live(h))
              /\ \A k \in 1..Len(new) : EntryArgs(new[k]) = h.appended[order[k]]
              /\ \A e \in h.evicted : \A l \in Live(h) : e < l
              /\ h.deleted = {} =>
                    /\ Len(new) = IF n < HistoryCap THEN n ELSE HistoryCap
                    /\ \A k \in 1..Len(new) :
                          new[k].full_text = TextOfNumber(n - k + 1)
              /\ page'[u].kind = "extract" /\ page'[u].outcome = "success" =>
                    /\ Len(new) = IF Len(old) < HistoryCap THEN Len(old) + 1
                                  ELSE HistoryCap
                    /\ new[1].full_text = session_state'[u].ocr_result
                    /\ \A k \in 2..Len(new) : new[k] = old[k - 1]
              /\ page'[u].kind = "delete" =>
                    LET i == page'[u].arg
                    IN  /\ Len(new) = Len(old) - 1
                        /\ \A k \in 1..i : new[k] = old[k]
                        /\ \A k \in (i + 1)..Len(new) : new[k] = old[k + 1]]_vars

\* C2's case: 25 entries were appended, the 5 oldest were evicted and then
\* an entry that is neither the newest nor the oldest one left was deleted.
C2_Witness ==
    /\ Len(hist["A"].appended) = 25
    /\ hist["A"].evicted = 1..5
    /\ \E d \in 7..24 : hist["A"].deleted = {d}
    /\ Len(session_state["A"].ocr_history) = HistoryCap - 1
    /\ page["A"].kind = "delete"

\* C11: every history entry holds the text it was appended with, unchanged,
\* and a preview that is the text itself when the text has at most 200
\* characters, and its first 200 characters followed by "..." when it has
\* more; a text of exactly 200 characters is not truncated.
C11_PreviewTruncation ==
    \A u \in Sessions :
        LET history == session_state[u].ocr_history
            order == Descending(Live(hist[u]))
        IN  \A k \in 1..Len(history) :
                LET full == hist[u].appended[order[k]].text
                    preview == history[k].text
                IN  /\ history[k].full_text = full
                    /\ Len(full) <= 200 => preview = full
                    /\ Len(full) > 200 =>
                          /\ Len(preview) = 203
                          /\ \A i \in 1..200 : preview[i] = full[i]
                          /\ \A i \in 201..203 : preview[i] = "."

\* C11's case: the history holds a text of 250 characters with a preview of
\* 203 and, under it, a text of exactly 200 characters with itself as preview.
C11_Witness ==
    LET history == session_state["A"].ocr_history
    IN  /\ Len(history) = 2
        /\ Len(history[1].full_text) = 250
        /\ Len(history[1].text) = 203
        /\ Len(history[2].full_text) = 200
        /\ history[2].text = history[2].full_text

\* C12: whenever a session has an active result and a share URL, the share
\* record stored under its current share id has the text and the language of
\* the active result.
C12_ShareMatchesResult ==
    \A u \in Sessions :
        LET ss == session_state[u]
        IN  {"ocr_result", "share_url"} \subseteq ss.keys =>
                LET r == get_shared_result(ss, ss.share_id)
                IN  /\ ss.share_url = [base |-> base_url, share |-> ss.share_id]
                    /\ r # None
                    /\ r.text = ss.ocr_result
                    /\ r.language = ss.ocr_language

\* C13: whenever a session has an active result, the stored language code is
\* the catalog's code of the stored language name.
C13_LanguageCodeMatches ==
    \A u \in Sessions :
        LET ss == session_state[u]
        IN  "ocr_result" \in ss.keys =>
                /\ {"ocr_language", "ocr_language_code"} \subseteq ss.keys
                /\ ss.ocr_language_code = languages[ss.ocr_language]

\* C14: Clear leaves the history list and the share records as they were:
\* the same entries in the same order, and every identifier that resolved
\* before resolves to the same record after; and no interaction of a session
\* removes a share record.
C14_ClearKeepsHistoryAndShares ==
    [][\A u \in Sessions :
          LET old == session_state[u]
              new == session_state'[u]
          IN  /\ page'[u].kind = "clear" =>
                    /\ new.ocr_history = old.ocr_history
                    /\ ("ocr_history" \in new.keys) = ("ocr_history" \in old.keys)
                    /\ new.shared_results = old.shared_results
                    /\ \A id \in AllShareIds :
                          get_shared_result(new, id) = get_shared_result(old, id)
              /\ \A id \in DOMAIN old.shared_results :
                    get_shared_result(old, id) # None
                       => get_shared_result(new, id) # None]_vars

\* C14's case: Clear was clicked in a session with two history entries and a
\* share record, and the active result and the share URL are gone.
C14_Witness ==
    \E u \in Sessions :
        /\ page[u].kind = "clear"
        /\ Len(session_state[u].ocr_history) = 2
        /\ \E id \in AllShareIds : get_shared_result(session_state[u], id) # None
        /\ "ocr_result" \notin session_state[u].keys
        /\ "share_url" \notin session_state[u].keys

\* The part of the session state an extraction writes, with its keys
SessionData(u) ==
    LET ss == session_state[u]
    IN  <<ss.keys \cap {"ocr_result", "ocr_language", "ocr_language_code",
                        "processing_time", "share_url", "share_id",
                        "shared_results", "ocr_history"},
          ss.ocr_result, ss.ocr_language, ss.ocr_language_code,
          ss.processing_time, ss.share_url, ss.share_id, ss.shared_results,
          ss.ocr_history>>

\* C3: an Extract interaction that fails (oversize, service error, exception,
\* no parsed results, blank text) leaves the result text, language, language
\* code, processing time, share URL and id, share records and history as
\* they were.
C3_FailedExtractKeepsState ==
    [][\A u \in Sessions :
          (clicks'[u] = clicks[u] + 1 /\ page'[u].outcome # "success")
             => SessionData(u)' = SessionData(u)]_vars

\* C4: no interaction ends in an exception that nothing handles.
C4_NoUnhandledFault == \A u \in Sessions : ~page[u].fault

\* C5 as stated: an identifier a session created resolves, in every other
\* session of the process, to the record with the creator's text and
\* language.
C5_CrossSessionResolve ==
    \A u \in Sessions : \A v \in Sessions \ {u} :
        \A id \in DOMAIN created[u] :
            LET r == get_shared_result(session_state[v], id)
            IN  /\ r # None
                /\ r.text = created[u][id].text
                /\ r.language = created[u][id].language

\* C5, amended: an identifier resolves only in a session whose own state
\* holds it.  In every other session, of the same process too, an identifier
\* some session created resolves to None, unless that session's own
\* generate_shareable_link returned the same identifier, and then to that
\* session's own record; a page opened with a share link shows a shared
\* result only for an identifier its own session created.
C5_SessionScopedResolve ==
    \A u \in Sessions : \A v \in Sessions \ {u} :
        /\ \A id \in DOMAIN created[u] :
              LET r == get_shared_result(session_state[v], id)
              IN  IF id \in DOMAIN created[v]
                  THEN /\ r # None
                       /\ r.text = created[v][id].text
                       /\ r.language = created[v][id].language
                  ELSE r = None
        /\ "shared_result" \in page[v].msgs =>
              /\ query_share[v] # None
              /\ query_share[v] \in DOMAIN created[v]

\* C5's case: a session holds an identifier it created, and another session
\* of the process was opened with the link and rendered no shared result.
C5_Witness ==
    \E u \in Sessions : \E v \in Sessions \ {u} :
        /\ query_share[v] # None
        /\ query_share[v] \in DOMAIN created[u]
        /\ get_shared_result(session_state[u], query_share[v]) # None
        /\ page[v].kind = "load"
        /\ "shared_result" \notin page[v].msgs

\* C6: within a session, an identifier no generate_shareable_link call has
\* returned resolves to None, and an identifier one has returned resolves to a
\* record with the text and language passed to the call that returned it last.
C6_ShareRoundTrip ==
    \A u \in Sessions :
        /\ \A id \in AllShareIds \ DOMAIN created[u] :
              get_shared_result(session_state[u], id) = None
        /\ \A id \in DOMAIN created[u] :
              LET r == get_shared_result(session_state[u], id)
              IN  /\ r # None
                  /\ r.text = created[u][id].text
                  /\ r.language = created[u][id].language

\* C6's case: a session with one identifier created and another never created.
C6_Witness ==
    \E u \in Sessions :
        /\ DOMAIN created[u] # {}
        /\ AllShareIds \ DOMAIN created[u] # {}
        /\ "share_id" \in session_state[u].keys
        /\ session_state[u].share_id \in DOMAIN created[u]

\* C7: an active result comes to exist only by a successful extraction or a
\* View; a failed extraction creates none; the tabs are shown only with an
\* active result; after Clear there is no active result and no share URL.
C7_ResultStateMachine ==
    [][\A u \in Sessions :
          /\ ("ocr_result" \in session_state'[u].keys
                /\ "ocr_result" \notin session_state[u].keys)
               => (page'[u].outcome = "success" \/ page'[u].kind = "view")
          /\ page'[u].tabs => "ocr_result" \in session_state'[u].keys
          /\ page'[u].kind = "clear" =>
               /\ "ocr_result" \notin session_state'[u].keys
               /\ "share_url" \notin session_state'[u].keys]_vars

\* The place of a step in the order of an Extract interaction
Rank(op) ==
    CASE op = "preprocess" -> 1
      [] op \in {"serialize", "resize"} -> 2
      [] op = "ocr_call" -> 3
      [] op = "set_result" -> 4
      [] op = "add_to_history" -> 5
      [] op = "create_share" -> 6
      [] OTHER -> 0

\* C8: an Extract interaction preprocesses, then budgets the size, then makes
\* at most one OCR call, then updates the result, appends to the history and
\* creates the share, in this order; the history grows and the share records
\* change only in an interaction whose OCR call returned non-blank text.
C8_ExtractOrder ==
    [][\A u \in Sessions :
          LET p == page'[u]
              st == page'[u].steps
              ok == /\ p.kind = "extract"
                    /\ InSeq(st, "ocr_call")
                    /\ p.msgs \cap {"ocr_error", "no_text", "too_large"} = {}
                    /\ session_state'[u].ocr_result # <<>>
                    /\ strip(session_state'[u].ocr_result)
                         = session_state'[u].ocr_result
          IN  /\ p.kind = "extract" =>
                   /\ st # <<>> /\ st[1] = "preprocess"
                   /\ \A i, j \in DOMAIN st : i < j => Rank(st[i]) <= Rank(st[j])
                   /\ \A op \in {"preprocess", "ocr_call", "set_result",
                                 "add_to_history", "create_share"} :
                         Count(st, op) <= 1
                   /\ InSeq(st, "ocr_call") => InSeq(st, "serialize")
                   /\ InSeq(st, "set_result") => InSeq(st, "ocr_call")
                   /\ InSeq(st, "add_to_history") => InSeq(st, "set_result")
                   /\ InSeq(st, "create_share") => InSeq(st, "add_to_history")
                   /\ Len(p.sent) = Count(st, "ocr_call")
              /\ (InSeq(st, "add_to_history") \/ InSeq(st, "create_share")) => ok
              /\ Len(session_state'[u].ocr_history) > Len(session_state[u].ocr_history)
                   => ok /\ InSeq(st, "add_to_history")
              /\ session_state'[u].shared_results # session_state[u].shared_results
                   => ok /\ InSeq(st, "create_share")]_vars

\* C8's case: an Extract interaction that went through every step.
C8_Witness ==
    \E u \in Sessions :
        page[u].steps = <<"preprocess", "serialize", "resize", "serialize",
                          "ocr_call", "set_result", "add_to_history",
                          "create_share">>

\* The k-th line of a text: what lies between its (k-1)-th and k-th newline
Newlines(text) == {j \in 1..Len(text) : text[j] = Newline}

\* Where the k-th newline is: before the text for k = 0, past its end for the
\* one after the last
NewlineAt(text, k) ==
    IF k = 0 THEN 0
    ELSE IF k > Cardinality(Newlines(text)) THEN Len(text) + 1
    ELSE CHOOSE j \in Newlines(text) :
            Cardinality({x \in Newlines(text) : x < j}) = k - 1

LineOf(text, k) == SubSeq(text, NewlineAt(text, k - 1) + 1, NewlineAt(text, k) - 1)

LineCount(text) == Cardinality(Newlines(text)) + 1

Buckets == {"headings", "lists", "code_blocks", "tables", "paragraphs"}

\* C9: every non-blank line is in exactly one bucket, the one of the first
\* rule it matches in the order heading, list, code-like, table-like,
\* paragraph; a blank line is in none; an entry holds the trimmed text and the
\* line's position counted from 1 with the blank lines counted; every bucket
\* is in ascending line order.
C9_FirstMatchingRule ==
    structure # None =>
        LET Holds(b, k, t) == InSeq(structure[b], [line |-> k, text |-> t])
        IN  /\ DOMAIN structure = Buckets
            /\ \A k \in 1..LineCount(text_in) :
                  LET t == strip(LineOf(text_in, k))
                      H == HeadingRule(t)
                      L == ListRule(t)
                      C == CodeRule(t)
                      T == TableRule(t)
                  IN  IF t = <<>>
                      THEN \A b \in Buckets : \A i \in DOMAIN structure[b] :
                              structure[b][i].line # k
                      ELSE /\ Holds("headings", k, t) <=> H
                           /\ Holds("lists", k, t) <=> ~H /\ L
                           /\ Holds("code_blocks", k, t) <=> ~H /\ ~L /\ C
                           /\ Holds("tables", k, t) <=> ~H /\ ~L /\ ~C /\ T
                           /\ Holds("paragraphs", k, t) <=> ~H /\ ~L /\ ~C /\ ~T
                           /\ Cardinality({<<b, i>> \in Buckets \X (1..LineCount(text_in)) :
                                  i \in DOMAIN structure[b]
                                    /\ structure[b][i].line = k}) = 1
            /\ \A b \in Buckets : \A i \in DOMAIN structure[b] :
                  /\ structure[b][i].line \in 1..LineCount(text_in)
                  /\ \A j \in DOMAIN structure[b] :
                        i < j => structure[b][i].line < structure[b][j].line

\* C9's case: after a blank first line, "1. x = 5;" is a list item on line 2
\* and a line of 99 capitals a heading on line 3.
C9_Witness ==
    /\ structure # None
    /\ structure.lists =
          <<[line |-> 2,
             text |-> <<"1", ".", " ", "x", " ", "=", " ", "5", ";">>]>>
    /\ structure.headings = <<[line |-> 3, text |-> Rep("X", HeadingLen - 1)]>>
    /\ structure.code_blocks = <<>>

\* C10: View i makes the active text the full text of the entry at position
\* i and the active language that entry's language, sends nothing to the OCR
\* service and leaves the history as it was.
C10_ViewPromotesEntry ==
    [][\A u \in Sessions :
          page'[u].kind = "view" =>
             LET ss == session_state'[u]
                 item == session_state[u].ocr_history[page'[u].arg + 1]
             IN  /\ ss.ocr_history = session_state[u].ocr_history
                 /\ {"ocr_result", "ocr_language"} \subseteq ss.keys
                 /\ ss.ocr_result = item.full_text
                 /\ ss.ocr_language = item.language
                 /\ page'[u].sent = <<>>
                 /\ ~InSeq(page'[u].steps, "ocr_call")]_vars

\* C10's case: the second entry, whose text is longer than its preview and
\* whose language is not the one shown before, was viewed.
C10_Witness ==
    \E u \in Sessions :
        /\ page[u].kind = "view"
        /\ page[u].arg = 1
        /\ Len(session_state[u].ocr_result) > PreviewLen
        /\ session_state[u].ocr_language # session_state[u].ocr_history[1].language

====
